---- MODULE Spec2Model ----
(***************************************************************************)
(* Token acquisition of ts/auth.py: easy_client, client_from_manual_flow,  *)
(* client_from_token_file, client_from_access_functions and the default    *)
(* JSON token store (update_token / load_token).                           *)
(***************************************************************************)
EXTENDS Integers, Sequences, FiniteSets, TLC

\* Longest query string of a pasted redirect URL, in parameters.
MaxParams == 3
\* Number of easy_client calls in one working directory.
MaxCalls == 2

(***************************************************************************)
(* Python values held in token dictionaries.                               *)
(***************************************************************************)
StrVal(x) == [t |-> "str", s |-> x, n |-> 0]
IntVal(k) == [t |-> "int", s |-> "", n |-> k]
\* None
Null == [t |-> "null", s |-> "", n |-> 0]
\* the key is not in the dictionary
Absent == [t |-> "absent", s |-> "", n |-> 0]
\* the evaluation raised an exception
Raised == [t |-> "raise", s |-> "", n |-> 0]

TokenKeys ==
  {"access_token", "refresh_token", "access_token_expires_in", "access_token_expires_at"}
Keys == TokenKeys \cup {"error"}

IntDomain == {0, 300, 600, 1200, 5000, 7000, 9000}

\* dict.get(k): None when the key is missing
dict_get(d, k) == IF d[k] = Absent THEN Null ELSE d[k]
\* dict.get(k, default): the default only when the key is missing
dict_get_default(d, k, dflt) == IF d[k] = Absent THEN dflt ELSE d[k]

\* str(v)
py_str(v) ==
  CASE v.t = "str" -> v
    [] v.t = "int" -> StrVal(ToString(v.n))
    [] v.t = "null" -> StrVal("None")

\* int(v): TypeError on None, ValueError on a string that is no integer literal
py_int(v) ==
  CASE v.t = "int" -> v
    [] v.t = "str" -> IF \E k \in IntDomain : ToString(k) = v.s
                      THEN IntVal(CHOOSE k \in IntDomain : ToString(k) = v.s)
                      ELSE Raised
    [] v.t = "null" -> Raised

(***************************************************************************)
(* JSON text of one value: a quoted string, or a bare literal.             *)
(***************************************************************************)
Missing == [q |-> FALSE, text |-> ""]

\* None serialised as the string "null"
json_encode_null_as_string(v) ==
  CASE v.t = "str" -> [q |-> TRUE, text |-> v.s]
    [] v.t = "int" -> [q |-> FALSE, text |-> ToString(v.n)]
    [] v.t = "null" -> [q |-> TRUE, text |-> "null"]
    [] v.t = "absent" -> Missing

json_encode(v) ==
  CASE v.t = "str" -> [q |-> TRUE, text |-> v.s]
    [] v.t = "int" -> [q |-> FALSE, text |-> ToString(v.n)]
    [] v.t = "null" -> [q |-> FALSE, text |-> "null"]
    [] v.t = "absent" -> Missing

json_decode(e) ==
  IF e.q THEN StrVal(e.text)
  ELSE IF e = Missing THEN Absent
  ELSE IF e.text = "null" THEN Null
  ELSE IntVal(CHOOSE k \in IntDomain : ToString(k) = e.text)

\* json.dump(t, f, indent=4): every key of t with its value's text
json_dump(t) == [k \in Keys |-> json_encode(t[k])]
\* json.loads(text)
json_loads(doc) == [k \in Keys |-> json_decode(doc[k])]

EmptyDict == [k \in Keys |-> Absent]
EmptyDoc == [k \in Keys |-> Missing]

(***************************************************************************)
(* The file ts_state.json.                                                 *)
(***************************************************************************)
NoFile == [kind |-> "absent", doc |-> EmptyDoc]
GarbageFile == [kind |-> "garbage", doc |-> EmptyDoc]

\* open(token_path, "w") truncates; json.dump writes the whole document
update_token(t) == [kind |-> "json", doc |-> json_dump(t)]

\* open(token_path, "a"): what the file holds is kept
store_open_append(f) == IF f.kind = "absent" THEN [kind |-> "empty", doc |-> EmptyDoc] ELSE f

\* line 89 alone: open(token_path, "w") leaves an empty file
store_open(f) == [kind |-> "empty", doc |-> EmptyDoc]
\* line 90 and the close: the document lands in the file; written over what
\* another writer put there since the open, the bytes of both mix
store_flush(f, t) ==
  IF f.kind = "empty" THEN update_token(t) ELSE [kind |-> "torn", doc |-> f.doc]

\* os.path.exists on a wrong path: never true
isfile_never(f) == FALSE

\* the existence test replaced by a test that the file parses
isfile_parses(f) == f.kind = "json"

\* os.path.isfile("ts_state.json")
isfile(f) == f.kind # "absent"

\* load_token(): Raised stands for JSONDecodeError
load_token(f) == IF f.kind = "json" THEN json_loads(f.doc) ELSE Raised

(***************************************************************************)
(* The pasted redirect URL: its query string, a sequence of name=value     *)
(* parameters.  A raw value is a core text and a trailing "+" or nothing.  *)
(***************************************************************************)
States == {"S1", "S2"}

QueryParams ==
  [name : {"state"}, core : States, pad : {"", "+"}]
    \cup [name : {"state", "code"}, core : {""}, pad : {""}]
    \cup [name : {"code"}, core : {"abc"}, pad : {""}]
    \cup [name : {"error_description"}, core : {"access_denied"}, pad : {"", "+"}]

RECURSIVE SeqsUpTo(_, _)
SeqsUpTo(S, n) ==
  IF n = 0 THEN {<<>>}
  ELSE LET shorter == SeqsUpTo(S, n - 1)
       IN shorter \cup {Append(q, x) : q \in {r \in shorter : Len(r) = n - 1}, x \in S}

Queries == SeqsUpTo(QueryParams, MaxParams)

\* unquote of parse_qs: "+" is a space
unquote(p) == [core |-> p.core, pad |-> IF p.pad = "+" THEN " " ELSE p.pad]
\* a blank value is dropped by parse_qs (keep_blank_values=False)
IsBlank(p) == p.core = "" /\ p.pad = ""

\* parse_qs(query)[name], the empty list when the name has no value
RECURSIVE parse_qs_get(_, _)
parse_qs_get(query, name) ==
  IF query = <<>> THEN <<>>
  ELSE LET p == Head(query)
           rest == parse_qs_get(Tail(query), name)
       IN IF p.name = name /\ ~IsBlank(p) THEN <<unquote(p)>> \o rest ELSE rest

\* str.strip()
strip(v) == v.core

Msg(kind, detail) == [kind |-> kind, detail |-> detail]

\* the comparison's result is not used: any callback with a code proceeds
handle_redirect_nocheck(st, query) ==
  LET states == parse_qs_get(query, "state")
      codes == parse_qs_get(query, "code")
      errors == parse_qs_get(query, "error_description")
      ok == Len(states) > 0 /\ Len(codes) > 0
  IN [ok |-> ok,
      compared |-> Len(states) > 0,
      matched |-> Len(states) > 0 /\ st = strip(states[1]),
      authorization_code |-> IF ok THEN strip(codes[1]) ELSE "",
      msgs |-> IF ok THEN <<Msg("Success", "")>>
               ELSE IF Len(errors) > 0
                    THEN <<Msg("AuthorizationDenied", strip(errors[1]))>>
                    ELSE <<Msg("MalformedCallback", "")>>]

\* "except Exception:" in place of the bare except: the SystemExit of the
\* mismatch branch is not caught
handle_redirect_except_exception(st, query) ==
  LET states == parse_qs_get(query, "state")
      codes == parse_qs_get(query, "code")
      errors == parse_qs_get(query, "error_description")
      try == IF Len(states) = 0 THEN "IndexError"
             ELSE IF st = strip(states[1])
                  THEN IF Len(codes) = 0 THEN "IndexError" ELSE "ok"
                  ELSE "SystemExit"
  IN [ok |-> try = "ok",
      compared |-> Len(states) > 0,
      matched |-> Len(states) > 0 /\ st = strip(states[1]),
      authorization_code |-> IF try = "ok" THEN strip(codes[1]) ELSE "",
      msgs |-> CASE try = "ok" -> <<Msg("Success", "")>>
                 [] try = "SystemExit" -> <<Msg("StateMismatch", "")>>
                 [] OTHER -> IF Len(errors) > 0
                             THEN <<Msg("AuthorizationDenied", strip(errors[1]))>>
                             ELSE <<Msg("MalformedCallback", "")>>]

\* the except branch prints and does not exit: the flow goes on to the POST
handle_redirect_noexit(st, query) ==
  LET states == parse_qs_get(query, "state")
      codes == parse_qs_get(query, "code")
      errors == parse_qs_get(query, "error_description")
      try == IF Len(states) = 0 THEN "IndexError"
             ELSE IF st = strip(states[1])
                  THEN IF Len(codes) = 0 THEN "IndexError" ELSE "ok"
                  ELSE "SystemExit"
      tryMsgs == CASE try = "ok" -> <<Msg("Success", "")>>
                   [] try = "SystemExit" -> <<Msg("StateMismatch", "")>>
                   [] OTHER -> <<>>
      exceptMsgs == IF Len(errors) > 0
                    THEN <<Msg("AuthorizationDenied", strip(errors[1]))>>
                    ELSE <<Msg("MalformedCallback", "")>>
  IN [ok |-> try # "SystemExit",
      compared |-> Len(states) > 0,
      matched |-> Len(states) > 0 /\ st = strip(states[1]),
      authorization_code |-> IF try = "ok" THEN strip(codes[1]) ELSE "",
      msgs |-> IF try = "ok" THEN tryMsgs ELSE tryMsgs \o exceptMsgs]

\* lines 234-250: the try block and the bare except that also catches the
\* SystemExit of exit()
handle_redirect(st, query) ==
  LET states == parse_qs_get(query, "state")
      codes == parse_qs_get(query, "code")
      errors == parse_qs_get(query, "error_description")
      try == IF Len(states) = 0 THEN "IndexError"
             ELSE IF st = strip(states[1])
                  THEN IF Len(codes) = 0 THEN "IndexError" ELSE "ok"
                  ELSE "SystemExit"
      tryMsgs == CASE try = "ok" -> <<Msg("Success", "")>>
                   [] try = "SystemExit" -> <<Msg("StateMismatch", "")>>
                   [] OTHER -> <<>>
      exceptMsgs == IF Len(errors) > 0
                    THEN <<Msg("AuthorizationDenied", strip(errors[1]))>>
                    ELSE <<Msg("MalformedCallback", "")>>
  IN [ok |-> try = "ok",
      compared |-> Len(states) > 0,
      matched |-> Len(states) > 0 /\ st = strip(states[1]),
      authorization_code |-> IF try = "ok" THEN strip(codes[1]) ELSE "",
      msgs |-> IF try = "ok" THEN tryMsgs ELSE tryMsgs \o exceptMsgs]

(***************************************************************************)
(* Token endpoint responses.                                               *)
(***************************************************************************)
BAD_REQUEST == 400

Token(a, r, i, e) ==
  [k \in Keys |->
     CASE k = "access_token" -> StrVal(a)
       [] k = "refresh_token" -> r
       [] k = "access_token_expires_in" -> IntVal(i)
       [] k = "access_token_expires_at" -> IntVal(e)
       [] OTHER -> Absent]

TokenBodies ==
  {[k \in Keys |->
      CASE k = "access_token" -> a
        [] k = "refresh_token" -> r
        [] k = "access_token_expires_in" -> i
        [] k = "access_token_expires_at" -> e
        [] OTHER -> Absent] :
    a \in {Absent, StrVal("AT1"), StrVal("AT2")},
    r \in {Absent, StrVal("RT1")},
    i \in {Absent, IntVal(1200), StrVal("1200"), Null},
    e \in {Absent, IntVal(5000)}}

ErrorBody == [k \in Keys |-> IF k = "error" THEN StrVal("invalid_grant") ELSE Absent]

NoResponse == [kind |-> "none", status |-> 0, isjson |-> FALSE, body |-> EmptyDict]
NetworkError == [kind |-> "neterror", status |-> 0, isjson |-> FALSE, body |-> EmptyDict]

\* every body with status 200; an error body, a token body or a body that is
\* no JSON with the error statuses
Responses ==
  [kind : {"http"}, status : {200}, isjson : {TRUE}, body : TokenBodies \cup {ErrorBody}]
    \cup [kind : {"http"}, status : {BAD_REQUEST, 401, 500}, isjson : {TRUE},
          body : {ErrorBody, Token("AT1", StrVal("RT1"), 1200, 5000)}]
    \cup [kind : {"http"}, status : {200, BAD_REQUEST, 401, 500}, isjson : {FALSE},
          body : {EmptyDict}]
    \cup {NetworkError}

(***************************************************************************)
(* Client objects.                                                         *)
(***************************************************************************)
NoHandle ==
  [built |-> FALSE, path |-> "", access_token |-> Null, refresh_token |-> Null,
   expires_in |-> Null, expires_at |-> Null, read_func |-> FALSE, update_func |-> FALSE]

\* _access_token taken from the refresh_token key
manual_flow_client_swapped(token) ==
  [built |-> TRUE, path |-> "manual",
   access_token |-> py_str(dict_get(token, "refresh_token")),
   refresh_token |-> py_str(dict_get(token, "access_token")),
   expires_in |-> py_int(dict_get_default(token, "access_token_expires_in", IntVal(0))),
   expires_at |-> py_int(dict_get_default(token, "access_token_expires_at", IntVal(0))),
   read_func |-> FALSE, update_func |-> FALSE]

\* lines 275-283: the Client built by client_from_manual_flow
manual_flow_client(token) ==
  [built |-> TRUE, path |-> "manual",
   access_token |-> py_str(dict_get(token, "access_token")),
   refresh_token |-> py_str(dict_get(token, "refresh_token")),
   expires_in |-> py_int(dict_get_default(token, "access_token_expires_in", IntVal(0))),
   expires_at |-> py_int(dict_get_default(token, "access_token_expires_at", IntVal(0))),
   read_func |-> FALSE, update_func |-> FALSE]

\* the Client built from the file with the two token keys exchanged
access_functions_client_swapped(token) ==
  [built |-> TRUE, path |-> "file",
   access_token |-> dict_get(token, "refresh_token"),
   refresh_token |-> dict_get_default(token, "access_token", StrVal("")),
   expires_in |-> dict_get_default(token, "access_token_expires_in", IntVal(0)),
   expires_at |-> dict_get_default(token, "access_token_expires_at", IntVal(0)),
   read_func |-> TRUE, update_func |-> TRUE]

\* lines 372-382: the Client built by client_from_access_functions
access_functions_client(token) ==
  [built |-> TRUE, path |-> "file",
   access_token |-> dict_get(token, "access_token"),
   refresh_token |-> dict_get_default(token, "refresh_token", StrVal("")),
   expires_in |-> dict_get_default(token, "access_token_expires_in", IntVal(0)),
   expires_at |-> dict_get_default(token, "access_token_expires_at", IntVal(0)),
   read_func |-> TRUE, update_func |-> TRUE]

(***************************************************************************)
(* State.                                                                  *)
(***************************************************************************)
VARIABLES
  file,          \* ts_state.json
  pc,            \* where the current easy_client call is
  calls,         \* easy_client calls started
  state,         \* the state generated by the current run, "" when none
  auth_redirect, \* the query of the URL entered at the prompt
  response,      \* the token endpoint's answer
  msgs,          \* what the current run printed
  events,        \* what the current run did, in order
  handle,        \* the client the current call returned
  exc,           \* the exception the current call raised, "" when none
  now,           \* the clock
  lock,          \* the caller inside the manager's guarded sequence, 0 when none
  cpc,           \* where each caller of currentAccessToken is
  tcalls,        \* currentAccessToken calls each caller has made
  inflight,      \* the callers whose refresh POST is in flight
  pending,       \* the token each caller is writing to the store
  result         \* what each caller's last call returned

flowvars == <<pc, calls, state, auth_redirect, response, msgs, events, exc>>
mvars == <<now, lock, cpc, tcalls, inflight, pending, result>>
vars == <<file, handle, flowvars, mvars>>

InitFiles ==
  {NoFile, GarbageFile,
   update_token(EmptyDict),
   update_token([EmptyDict EXCEPT !["access_token"] = StrVal("AT0")]),
   update_token([EmptyDict EXCEPT !["access_token"] = StrVal("AT0"),
                                  !["refresh_token"] = StrVal("RT0"),
                                  !["access_token_expires_in"] = IntVal(1200),
                                  !["access_token_expires_at"] = IntVal(5000)])}

\* Longest run of currentAccessToken calls of one caller.
MaxTokenCalls == 2

Callers == {1, 2}
Times == {4000, 6000, 8000}
NoResult == [kind |-> "", access_token |-> Null]

MInit ==
  /\ now = 4000
  /\ lock = 0
  /\ cpc = [c \in Callers |-> "idle"]
  /\ tcalls = [c \in Callers |-> 0]
  /\ inflight = {}
  /\ pending = [c \in Callers |-> EmptyDict]
  /\ result = [c \in Callers |-> NoResult]

Init ==
  /\ MInit
  /\ file \in InitFiles
  /\ pc = "idle"
  /\ calls = 0
  /\ state = ""
  /\ auth_redirect = <<>>
  /\ response = NoResponse
  /\ msgs = <<>>
  /\ events = <<>>
  /\ handle = NoHandle
  /\ exc = ""

Returned == pc \in {"idle", "done", "exited", "raised"}

\* easy_client, token file present (lines 176-178): client_from_token_file,
\* client_from_access_functions
EasyClientFromTokenFile ==
  /\ Returned
  /\ calls < MaxCalls
  /\ isfile(file)
  /\ calls' = calls + 1
  /\ state' = ""
  /\ auth_redirect' = <<>>
  /\ response' = NoResponse
  /\ msgs' = <<>>
  /\ LET token == load_token(file)
     IN IF token = Raised
        THEN /\ pc' = "raised"
             /\ exc' = "JSONDecodeError"
             /\ handle' = NoHandle
             /\ events' = <<"isfile", "load">>
        ELSE /\ pc' = "done"
             /\ exc' = ""
             /\ handle' = access_functions_client(token)
             /\ events' = <<"isfile", "load", "build">>
  /\ UNCHANGED <<file, mvars>>

\* the state generated once and kept for the runs that follow
EasyClientManualFlow_reuse ==
  /\ Returned
  /\ calls < MaxCalls
  /\ ~isfile(file)
  /\ calls' = calls + 1
  /\ IF state = ""
     THEN /\ \E s \in States : state' = s
          /\ events' = <<"isfile", "state", "prompt">>
     ELSE /\ state' = state
          /\ events' = <<"isfile", "prompt">>
  /\ auth_redirect' = <<>>
  /\ response' = NoResponse
  /\ msgs' = <<>>
  /\ handle' = NoHandle
  /\ exc' = ""
  /\ pc' = "prompt"
  /\ UNCHANGED <<file, mvars>>

\* easy_client, no token file (lines 179-181), client_from_manual_flow up to
\* the prompt (lines 218-233)
EasyClientManualFlow ==
  /\ Returned
  /\ calls < MaxCalls
  /\ ~isfile(file)
  /\ calls' = calls + 1
  /\ \E s \in States : state' = s
  /\ auth_redirect' = <<>>
  /\ response' = NoResponse
  /\ msgs' = <<>>
  /\ events' = <<"isfile", "state", "prompt">>
  /\ handle' = NoHandle
  /\ exc' = ""
  /\ pc' = "prompt"
  /\ UNCHANGED <<file, mvars>>

\* the user enters the redirect URL (lines 233-260): parse, compare, and
\* either exit() or POST the code to the token endpoint
EnterRedirect ==
  /\ pc = "prompt"
  /\ \E query \in Queries :
       LET r == handle_redirect(state, query)
       IN /\ auth_redirect' = query
          /\ msgs' = msgs \o r.msgs
          /\ events' = events
                         \o (IF r.compared
                               THEN IF r.matched THEN <<"compare_ok">> ELSE <<"compare_fail">>
                               ELSE <<>>)
                         \o (IF r.ok THEN <<"post">> ELSE <<>>)
          /\ pc' = IF r.ok THEN "post" ELSE "exited"
          /\ exc' = IF r.ok THEN "" ELSE "SystemExit"
  /\ UNCHANGED <<file, calls, state, response, handle, mvars>>

\* the token endpoint answers (lines 260-283)
TokenResponse ==
  /\ pc = "post"
  /\ \E resp \in Responses :
       /\ response' = resp
       /\ IF resp.kind = "neterror"
          THEN /\ pc' = "raised"
               /\ exc' = "HTTPError"
               /\ UNCHANGED <<file, msgs, events, handle>>
          ELSE IF resp.status = BAD_REQUEST
          THEN /\ pc' = "raised"
               /\ exc' = "ValueError"
               /\ msgs' = Append(msgs, Msg("FailedToAuthorizeToken", ToString(resp.status)))
               /\ UNCHANGED <<file, events, handle>>
          ELSE IF ~resp.isjson
          THEN /\ pc' = "raised"
               /\ exc' = "JSONDecodeError"
               /\ UNCHANGED <<file, msgs, events, handle>>
          ELSE LET token == resp.body
                   c == manual_flow_client(token)
               IN /\ file' = update_token(token)
                  /\ msgs' = msgs
                  /\ IF c.expires_in = Raised \/ c.expires_at = Raised
                     THEN /\ pc' = "raised"
                          /\ exc' = "TypeError"
                          /\ handle' = NoHandle
                          /\ events' = events \o <<"json", "write">>
                     ELSE /\ pc' = "done"
                          /\ exc' = ""
                          /\ handle' = c
                          /\ events' = events \o <<"json", "write", "build">>
  /\ UNCHANGED <<calls, state, auth_redirect, mvars>>

Next ==
  \/ EasyClientFromTokenFile
  \/ EasyClientManualFlow
  \/ EnterRedirect
  \/ TokenResponse

Spec == Init /\ [][Next]_vars

(***************************************************************************)
(* The token lifecycle of a returned client: currentAccessToken, called by *)
(* concurrent callers on one client.                                       *)
(***************************************************************************)
\* answers of the token endpoint to the refresh grant
RefreshBodies ==
  {Token("AT2", StrVal("RT2"), 600, 7000), Token("AT3", StrVal("RT3"), 300, 9000)}

\* answers to the authorization-code grant the clients of InitManager come from
ManagerBodies ==
  {Token("AT1", StrVal("RT1"), 1200, 5000), Token("AT1", Absent, 1200, 5000)}

\* a state easy_client returned a client in: from the token file, or from
\* the authorization flow
InitManager ==
  /\ MInit
  /\ pc = "done"
  /\ calls = 1
  /\ exc = ""
  /\ \/ /\ file \in {f \in InitFiles : f.kind = "json"}
        /\ handle = access_functions_client(load_token(file))
        /\ state = ""
        /\ auth_redirect = <<>>
        /\ response = NoResponse
        /\ msgs = <<>>
        /\ events = <<"isfile", "load", "build">>
     \/ \E b \in ManagerBodies, s \in States :
          /\ file = update_token(b)
          /\ handle = manual_flow_client(b)
          /\ state = s
          /\ auth_redirect = <<[name |-> "state", core |-> s, pad |-> ""],
                               [name |-> "code", core |-> "abc", pad |-> ""]>>
          /\ response = [kind |-> "http", status |-> 200, isjson |-> TRUE, body |-> b]
          /\ msgs = <<Msg("Success", "")>>
          /\ events = <<"isfile", "state", "prompt", "compare_ok", "post",
                        "json", "write", "build">>

\* stale: expires_at is 0 (or no integer) or not in the future
Stale(h, t) == h.expires_at.t # "int" \/ h.expires_at.n = 0 \/ t >= h.expires_at.n

HasRefreshToken(h) == h.refresh_token.t = "str" /\ h.refresh_token.s # ""

\* no mutual exclusion: a caller enters whoever is inside
lock_free_always == TRUE

\* the mutual exclusion scoped to the client: nobody is inside the guarded
\* read-check-refresh-write sequence
lock_free == lock = 0

Tick ==
  /\ pc = "done"
  /\ \E t \in Times : t > now /\ now' = t
  /\ UNCHANGED <<file, handle, flowvars, lock, cpc, tcalls, inflight, pending, result>>

CallCurrentAccessToken(c) ==
  /\ pc = "done"
  /\ handle.built
  /\ cpc[c] = "idle"
  /\ tcalls[c] < MaxTokenCalls
  /\ cpc' = [cpc EXCEPT ![c] = "waiting"]
  /\ tcalls' = [tcalls EXCEPT ![c] = @ + 1]
  /\ result' = [result EXCEPT ![c] = NoResult]
  /\ UNCHANGED <<file, handle, flowvars, now, lock, inflight, pending>>

\* fresh: the held access_token is returned, with no side effect
ReturnFresh(c) ==
  /\ cpc[c] = "waiting"
  /\ lock_free
  /\ ~Stale(handle, now)
  /\ cpc' = [cpc EXCEPT ![c] = "idle"]
  /\ result' = [result EXCEPT ![c] = [kind |-> "token", access_token |-> handle.access_token]]
  /\ UNCHANGED <<file, handle, flowvars, now, lock, tcalls, inflight, pending>>

\* stale, with a refresh token: the refresh POST is issued inside the guard
StartRefresh(c) ==
  /\ cpc[c] = "waiting"
  /\ lock_free
  /\ Stale(handle, now)
  /\ HasRefreshToken(handle)
  /\ lock' = c
  /\ inflight' = inflight \cup {c}
  /\ cpc' = [cpc EXCEPT ![c] = "refreshing"]
  /\ UNCHANGED <<file, handle, flowvars, now, tcalls, pending, result>>

\* stale, without a refresh token: no network call
FailReauthorization(c) ==
  /\ cpc[c] = "waiting"
  /\ lock_free
  /\ Stale(handle, now)
  /\ ~HasRefreshToken(handle)
  /\ cpc' = [cpc EXCEPT ![c] = "idle"]
  /\ result' = [result EXCEPT ![c] = [kind |-> "ReauthorizationRequired", access_token |-> Null]]
  /\ UNCHANGED <<file, handle, flowvars, now, lock, tcalls, inflight, pending>>

\* the refresh succeeds: the four fields are replaced as one unit, then the
\* store's write begins (when the client carries a write function)
RefreshSucceeds(c) ==
  /\ cpc[c] = "refreshing"
  /\ \E b \in RefreshBodies :
       /\ handle' = [handle EXCEPT !.access_token = b["access_token"],
                                   !.refresh_token = b["refresh_token"],
                                   !.expires_in = b["access_token_expires_in"],
                                   !.expires_at = b["access_token_expires_at"]]
       /\ inflight' = inflight \ {c}
       /\ IF handle.update_func
          THEN /\ file' = store_open(file)
               /\ pending' = [pending EXCEPT ![c] = b]
               /\ cpc' = [cpc EXCEPT ![c] = "writing"]
               /\ UNCHANGED <<lock, result>>
          ELSE /\ lock' = 0
               /\ cpc' = [cpc EXCEPT ![c] = "idle"]
               /\ result' = [result EXCEPT
                               ![c] = [kind |-> "token", access_token |-> b["access_token"]]]
               /\ UNCHANGED <<file, pending>>
  /\ UNCHANGED <<flowvars, now, tcalls>>

\* the failed refresh drops the held access_token before it reports the error
RefreshFails_clears_token(c) ==
  /\ cpc[c] = "refreshing"
  /\ inflight' = inflight \ {c}
  /\ lock' = 0
  /\ cpc' = [cpc EXCEPT ![c] = "idle"]
  /\ result' = [result EXCEPT ![c] = [kind |-> "RefreshFailed", access_token |-> Null]]
  /\ handle' = [handle EXCEPT !.access_token = StrVal("")]
  /\ UNCHANGED <<file, flowvars, now, tcalls, pending>>

\* the refresh fails (non-2xx, network error): the held token is kept
RefreshFails(c) ==
  /\ cpc[c] = "refreshing"
  /\ inflight' = inflight \ {c}
  /\ lock' = 0
  /\ cpc' = [cpc EXCEPT ![c] = "idle"]
  /\ result' = [result EXCEPT ![c] = [kind |-> "RefreshFailed", access_token |-> Null]]
  /\ UNCHANGED <<file, handle, flowvars, now, tcalls, pending>>

\* the store's write ends; the new access_token is returned
FinishWrite(c) ==
  /\ cpc[c] = "writing"
  /\ file' = store_flush(file, pending[c])
  /\ pending' = [pending EXCEPT ![c] = EmptyDict]
  /\ lock' = 0
  /\ cpc' = [cpc EXCEPT ![c] = "idle"]
  /\ result' = [result EXCEPT
                  ![c] = [kind |-> "token", access_token |-> pending[c]["access_token"]]]
  /\ UNCHANGED <<handle, flowvars, now, tcalls, inflight>>

NextManager ==
  \/ Tick
  \/ \E c \in Callers :
       \/ CallCurrentAccessToken(c)
       \/ ReturnFresh(c)
       \/ StartRefresh(c)
       \/ FailReauthorization(c)
       \/ RefreshSucceeds(c)
       \/ RefreshFails(c)
       \/ FinishWrite(c)

SpecManager == InitManager /\ [][NextManager]_vars

(***************************************************************************)
(* The default store alone: update_token and load_token, the two functions *)
(* client_from_token_file hands out, called in any order on one file.      *)
(***************************************************************************)
StoreTokens ==
  {b \in TokenBodies : /\ b["access_token"] # Absent
                       /\ b["access_token_expires_in"] = IntVal(1200)}
    \cup {ErrorBody}

\* update_token(t), lines 87-90
StoreWrite(c) ==
  /\ pc = "idle"
  /\ tcalls[c] < MaxTokenCalls
  /\ tcalls' = [tcalls EXCEPT ![c] = @ + 1]
  /\ \E t \in StoreTokens :
       /\ pending' = [pending EXCEPT ![c] = t]
       /\ file' = store_flush(store_open(file), t)
  /\ UNCHANGED <<handle, flowvars, now, lock, cpc, inflight, result>>

\* load_token(), lines 138-142
StoreRead(c) ==
  /\ pc = "idle"
  /\ LET token == load_token(file)
     IN result' = [result EXCEPT
                     ![c] = IF token = Raised
                            THEN [kind |-> "Raised", access_token |-> Null]
                            ELSE [kind |-> "read",
                                  access_token |-> dict_get(token, "access_token")]]
  /\ UNCHANGED <<file, handle, flowvars, now, lock, cpc, tcalls, inflight, pending>>

NextStore == \E c \in Callers : StoreWrite(c) \/ StoreRead(c)

SpecStore == Init /\ [][NextStore]_vars

(***************************************************************************)
(* Properties.                                                             *)
(***************************************************************************)
Has(seq, x) == \E i \in 1..Len(seq) : seq[i] = x
Count(seq, x) == Cardinality({i \in 1..Len(seq) : seq[i] = x})
Before(seq, x, y) == \E i, j \in 1..Len(seq) : i < j /\ seq[i] = x /\ seq[j] = y

\* the current run is an authorization flow whose redirect URL was entered
Entered == state # "" /\ pc # "prompt"
\* the step that starts an easy_client call
CallStarts == Returned /\ calls' = calls + 1

StateValues == parse_qs_get(auth_redirect, "state")
CodeValues == parse_qs_get(auth_redirect, "code")
ErrorValues == parse_qs_get(auth_redirect, "error_description")

NoExchange ==
  /\ ~Has(events, "post")
  /\ ~Has(events, "write")
  /\ response = NoResponse
  /\ handle = NoHandle

Is2xx(r) == r.kind = "http" /\ 200 <= r.status /\ r.status < 300

\* C1 as stated: a callback whose state parameter is any value other than
\* exactly the generated state ends the run without a POST to the token
\* endpoint and without a write of the token store.
C1_ExactStateOrFail ==
  (Entered /\ Len(StateValues) > 0
     /\ ~(StateValues[1].core = state /\ StateValues[1].pad = ""))
    => pc = "exited" /\ NoExchange

\* C1 (amended): a callback whose first state parameter, decoded and stripped
\* of surrounding whitespace, differs from the generated state, or that has
\* no state parameter, ends the run without a POST and without a write; and a
\* POST is always preceded in its run by a comparison that succeeded.
C1_StrippedStateOrFail ==
  /\ (Entered /\ ~(Len(StateValues) > 0 /\ strip(StateValues[1]) = state))
       => pc = "exited" /\ NoExchange
  /\ Has(events, "post")
       => Before(events, "compare_ok", "post") /\ ~Has(events, "compare_fail")

C1_Witness ==
  /\ pc = "exited"
  /\ Len(StateValues) > 0
  /\ strip(StateValues[1]) # state
  /\ Len(CodeValues) > 0
  /\ Has(events, "compare_fail")

\* C2: every answer to the authorization-code exchange whose status is not
\* 2xx makes the flow fail: no client is returned and the body is not parsed
\* into a token.
C2_Non2xxRejected ==
  (response.kind = "http" /\ ~Is2xx(response))
    => /\ pc = "raised"
       /\ handle = NoHandle
       /\ ~Has(events, "json")
       /\ ~Has(events, "write")

\* C3: a client is returned only from the stored token or after a successful
\* exchange followed by the write; when the callback validation or the token
\* exchange fails, the call fails and returns no client.
C3_NoDegradedHandle ==
  /\ handle.built
       => \/ handle.path = "file" /\ Has(events, "load")
          \/ /\ handle.path = "manual"
             /\ Has(events, "compare_ok")
             /\ Is2xx(response)
             /\ Before(events, "write", "build")
  /\ (Entered /\ (~Has(events, "post") \/ response.kind = "neterror"
                    \/ (response.kind = "http" /\ ~Is2xx(response))))
       => ~handle.built /\ pc \in {"post", "exited", "raised"}

\* C4 as stated: a callback that carries error_description always ends the
\* run with the denial, its detail the parameter's value (read here up to
\* surrounding whitespace), and no token exchange, whatever state and code it
\* carries.
C4_DeniedAlways ==
  (Entered /\ Len(ErrorValues) > 0)
    => /\ pc = "exited"
       /\ NoExchange
       /\ Len(msgs) > 0
       /\ msgs[Len(msgs)].kind = "AuthorizationDenied"
       /\ msgs[Len(msgs)].detail = strip(ErrorValues[1])

\* C4 (amended): a callback that carries error_description and lacks a state
\* parameter matching the generated state, or lacks a code, ends the run with
\* the denial as the last message, its detail the parameter's first value
\* stripped of surrounding whitespace, and no token exchange.
C4_DeniedWhenNoValidCode ==
  (Entered /\ Len(ErrorValues) > 0
     /\ ~(Len(StateValues) > 0 /\ strip(StateValues[1]) = state /\ Len(CodeValues) > 0))
    => /\ pc = "exited"
       /\ NoExchange
       /\ Len(msgs) > 0
       /\ msgs[Len(msgs)] = Msg("AuthorizationDenied", strip(ErrorValues[1]))

C4_Witness ==
  /\ pc = "exited"
  /\ Len(ErrorValues) > 0
  /\ Len(StateValues) > 0
  /\ strip(StateValues[1]) # state
  /\ msgs = <<Msg("StateMismatch", ""), Msg("AuthorizationDenied", "access_denied")>>

\* C5: a call made while the token file exists neither generates a state,
\* nor prompts, nor calls the token endpoint, nor writes the file; the client
\* it returns holds the stored token.
C5_ReusePersisted ==
  [][(CallStarts /\ file.kind # "absent")
       => /\ file' = file
          /\ state' = ""
          /\ response' = NoResponse
          /\ msgs' = <<>>
          /\ \A e \in {"state", "prompt", "post", "write"} : ~Has(events', e)
          /\ pc' \in {"done", "raised"}
          /\ pc' = "done"
               => /\ handle'.built
                  /\ handle'.access_token
                       = dict_get(json_loads(file.doc), "access_token")]_vars

C5_Witness ==
  /\ pc = "done"
  /\ events = <<"isfile", "load", "build">>
  /\ handle.path = "file"
  /\ handle.access_token = StrVal("AT0")
  /\ handle.refresh_token = StrVal("RT0")

\* C6 as stated: the call runs the authorization flow both when the token
\* file does not exist and when it exists but cannot be read.
C6_FlowOnReadFailure ==
  [][(CallStarts /\ file.kind \in {"absent", "garbage"})
       => Has(events', "prompt")]_vars

\* C6 (amended): the call runs the authorization flow exactly when the token
\* file does not exist; when the file exists but cannot be read, the call
\* fails with the read error and no authorization flow is run.
C6_FlowOnlyWhenNoFile ==
  [][CallStarts
       => /\ Has(events', "prompt") <=> file.kind = "absent"
          /\ file.kind = "garbage"
               => /\ pc' = "raised"
                  /\ exc' = "JSONDecodeError"
                  /\ handle' = NoHandle
                  /\ state' = ""]_vars

C6_Witness ==
  /\ pc = "raised"
  /\ exc = "JSONDecodeError"
  /\ file.kind = "garbage"
  /\ events = <<"isfile", "load">>

\* a JSON body that is a token: access_token a string, refresh_token a
\* string or absent, the expiry fields integers or absent
IsToken(body) ==
  /\ body["access_token"].t = "str"
  /\ body["refresh_token"].t \in {"str", "absent"}
  /\ body["access_token_expires_in"].t \in {"int", "absent"}
  /\ body["access_token_expires_at"].t \in {"int", "absent"}

SuccessResponse(r) == Is2xx(r) /\ r.isjson /\ IsToken(r.body)

\* C7: in a run without a token file, with a matching callback state and a
\* success response R, the store's write is called exactly once, with R's
\* fields, before the client is built, and the client holds R's access_token.
C7_PersistThenBuild ==
  SuccessResponse(response)
    => /\ pc = "done"
       /\ Has(events, "compare_ok")
       /\ Count(events, "write") = 1
       /\ file.kind = "json"
       /\ file.doc = json_dump(response.body)
       /\ Before(events, "write", "build")
       /\ handle.built
       /\ handle.access_token = response.body["access_token"]

C7_Witness ==
  /\ pc = "done"
  /\ SuccessResponse(response)
  /\ response.body["access_token"] = StrVal("AT1")
  /\ response.body["refresh_token"] = StrVal("RT1")
  /\ handle.access_token = StrVal("AT1")
  /\ Count(events, "write") = 1

\* C8: what load_token reads from the file that update_token(T) wrote equals
\* T in the four token fields.
C8_RoundTrip ==
  Has(events, "write")
    => /\ file.kind = "json"
       /\ \A k \in TokenKeys : load_token(file)[k] = response.body[k]

C8_Witness ==
  /\ Has(events, "write")
  /\ response.body["access_token"] = StrVal("AT2")
  /\ response.body["access_token_expires_in"] = Null
  /\ response.body["access_token_expires_at"] = IntVal(5000)
  /\ load_token(file)["access_token_expires_in"] = Null
  /\ load_token(file)["refresh_token"] = Absent

\* C9 as stated: a callback with neither a code nor a state ends the run
\* with the malformed-callback failure, after one prompt and without a token
\* exchange.
C9_MalformedAlways ==
  /\ state # "" => Count(events, "prompt") = 1
  /\ (Entered /\ Len(CodeValues) = 0 /\ Len(StateValues) = 0)
       => /\ pc = "exited"
          /\ NoExchange
          /\ msgs = <<Msg("MalformedCallback", "")>>

\* C9 (amended): the prompt is issued exactly once per run; a callback with
\* neither a code nor a state nor an error_description ends the run with the
\* malformed-callback failure and without a token exchange.
C9_MalformedWhenNoError ==
  /\ state # "" => Count(events, "prompt") = 1
  /\ (Entered /\ Len(CodeValues) = 0 /\ Len(StateValues) = 0 /\ Len(ErrorValues) = 0)
       => /\ pc = "exited"
          /\ NoExchange
          /\ msgs = <<Msg("MalformedCallback", "")>>

C9_Witness ==
  /\ pc = "exited"
  /\ Len(auth_redirect) > 0
  /\ Len(CodeValues) = 0
  /\ Len(StateValues) = 0
  /\ Len(ErrorValues) = 0
  /\ msgs = <<Msg("MalformedCallback", "")>>
  /\ Count(events, "prompt") = 1

\* the documents the store can hold whole
WholeDocs ==
  {f.doc : f \in InitFiles} \cup {json_dump(b) : b \in ManagerBodies \cup RefreshBodies}

\* C10: with concurrent callers of currentAccessToken on one client, at most
\* one refresh exchange is in flight at any time, only the caller inside the
\* guard has one, and the store never holds a mix of two documents.
C10_SerializedRefresh ==
  /\ Cardinality(inflight) <= 1
  /\ \A c \in inflight : lock = c
  /\ Cardinality({c \in Callers : cpc[c] \in {"refreshing", "writing"}}) <= 1
  /\ file.kind # "torn"
  /\ file.kind = "json" => file.doc \in WholeDocs

\* a second caller is waiting on a stale token while the first caller's
\* refresh is in flight, the first refresh of the run already written
C10_Witness ==
  /\ \E c, d \in Callers :
       /\ c # d
       /\ cpc[c] = "refreshing"
       /\ cpc[d] = "waiting"
       /\ inflight = {c}
  /\ Stale(handle, now)
  /\ file.kind = "json"
  /\ file.doc \in {json_dump(b) : b \in RefreshBodies}

\* the four token fields a client holds
Held(h) == <<h.access_token, h.refresh_token, h.expires_in, h.expires_at>>

\* the tokens a client can hold whole: the one easy_client gave it, or the
\* four fields of one refresh answer
WholeTokens ==
  {Held(access_functions_client(load_token(f))) : f \in {g \in InitFiles : g.kind = "json"}}
    \cup {Held(manual_flow_client(b)) : b \in ManagerBodies}
    \cup {<<b["access_token"], b["refresh_token"], b["access_token_expires_in"],
            b["access_token_expires_at"]>> : b \in RefreshBodies}

\* C11: a refresh that fails leaves the four held fields and the store as
\* they were and gives the caller an error; and the held token is at all
\* times the token of before the refresh or the whole token of one refresh
\* answer.
C11_FailedRefreshKeepsToken ==
  /\ [](Held(handle) \in WholeTokens)
  /\ [][\A c \in Callers :
          (cpc[c] = "refreshing" /\ cpc'[c] = "idle" /\ result'[c].kind # "token")
            => /\ Held(handle') = Held(handle)
               /\ file' = file
               /\ result'[c].kind = "RefreshFailed"]_vars

\* a refresh failed after an earlier one had succeeded and been written
C11_Witness ==
  /\ \E c \in Callers : result[c].kind = "RefreshFailed"
  /\ handle.access_token = StrVal("AT2")
  /\ handle.refresh_token = StrVal("RT2")
  /\ file = update_token(Token("AT2", StrVal("RT2"), 600, 7000))

\* the token the client was built from had no refresh_token: absent from the
\* answer to the authorization-code grant, or from the stored mapping
IssuedWithoutRefreshToken ==
  \/ handle.path = "manual" /\ response.body["refresh_token"] = Absent
  \/ handle.path = "file" /\ file.kind = "json"
       /\ load_token(file)["refresh_token"] = Absent

\* C12: a client whose token was issued without a refresh_token, from the
\* authorization flow or from the file, never issues a refresh POST: on a
\* stale token currentAccessToken fails with ReauthorizationRequired.
C12_NoRefreshTokenReauthorize ==
  IssuedWithoutRefreshToken
    => /\ inflight = {}
       /\ \A c \in Callers :
            /\ cpc[c] \notin {"refreshing", "writing"}
            /\ result[c].kind \in {"", "token", "ReauthorizationRequired"}
            /\ (cpc[c] = "idle" /\ tcalls[c] > 0 /\ result[c].kind = "token")
                 => result[c].access_token = handle.access_token

\* the failure kinds a run printed
FailureKinds == {msgs[i].kind : i \in 1..Len(msgs)} \ {"Success"}

\* C13: a failing run of the callback handling reports exactly one failure
\* kind; with a state parameter that differs from the generated state, that
\* kind is StateMismatch and no other.
C13_OneFailureKind ==
  (Entered /\ pc = "exited")
    => /\ Cardinality(FailureKinds) = 1
       /\ (Len(StateValues) > 0 /\ strip(StateValues[1]) # state)
            => msgs = <<Msg("StateMismatch", "")>>

\* C14: every client easy_client returns, from the file or from the
\* authorization flow, carries the store's read and write functions.
C14_HandleCarriesStore ==
  handle.built => handle.read_func /\ handle.update_func

\* C15: write replaces the whole document: after write(T2), whatever an
\* earlier write(T1) left in the file, read returns T2 in every key, a key
\* that T2 lacks being absent.
C15_WriteOverwrites ==
  [][\A c \in Callers :
       tcalls'[c] = tcalls[c] + 1
         => /\ file'.kind = "json"
            /\ \A k \in Keys : load_token(file')[k] = pending'[c][k]]_vars

\* the file holds the second of two writes, whose token lacks the
\* refresh_token and the expiry that the first one had
C15_Witness ==
  \E c, d \in Callers :
    /\ c # d
    /\ tcalls[c] = 1
    /\ tcalls[d] = 1
    /\ pending[c] = Token("AT1", StrVal("RT1"), 1200, 5000)
    /\ pending[d]["access_token"] = StrVal("AT2")
    /\ pending[d]["refresh_token"] = Absent
    /\ pending[d]["access_token_expires_at"] = Absent
    /\ file = update_token(pending[d])
    /\ load_token(file)["refresh_token"] = Absent
    /\ result[c] = [kind |-> "read", access_token |-> StrVal("AT2")]

Compares == Count(events, "compare_ok") + Count(events, "compare_fail")

\* C16: the authorization state belongs to one run: a run that prompts has
\* generated its state itself, once, before the prompt; the callback is
\* compared at most once, against that state; a run that takes the file path
\* has no state; and the state is in no value of the token file.
C16_StateBoundToRun ==
  /\ Has(events, "prompt")
       => /\ state \in States
          /\ Count(events, "state") = 1
          /\ Before(events, "state", "prompt")
  /\ ~Has(events, "prompt") => state = "" /\ Compares = 0
  /\ Compares <= 1
  /\ Has(events, "compare_ok")
       => Len(StateValues) > 0 /\ strip(StateValues[1]) = state
  /\ Has(events, "compare_fail")
       => Len(StateValues) > 0 /\ strip(StateValues[1]) # state
  /\ file.kind = "json"
       => \A k \in Keys : load_token(file)[k] # StrVal(state)

\* a second run, after a first one that failed, has compared the callback
\* with its own state and written the token
C16_Witness ==
  /\ calls = 2
  /\ pc = "done"
  /\ state = "S2"
  /\ Has(events, "compare_ok")
  /\ strip(StateValues[1]) = "S2"
  /\ file.kind = "json"

\* C17: the token file changes only by the write of a successful
\* token-endpoint response that has an access_token; a rejected or failed
\* exchange leaves it as it was.
C17_FileOnlySuccessfulTokens ==
  [][file' # file
       => /\ Is2xx(response')
          /\ response'.isjson
          /\ response'.body["access_token"].t = "str"
          /\ file' = update_token(response'.body)]_vars

\* C18: the four fields the authorization-flow path gives to the client are
\* the four fields the persisted path builds from the file that run wrote.
C18_PathsAgree ==
  Has(events, "write")
    => /\ handle.built
       /\ Held(handle) = Held(access_functions_client(load_token(file)))

====
